---- MODULE Spec2Model ----
(***************************************************************************)
(* Model of src/ocrreader.py: the OCRProcessor text pipeline (clean_text,  *)
(* analyze_content, detect_content_type) and the process_file orchestrator *)
(* with its extraction collaborators.                                      *)
(*                                                                         *)
(* A Python str is modelled as a sequence of one-character strings, so     *)
(* that every regular expression, lower() and strip() is computed on       *)
(* characters.                                                             *)
(***************************************************************************)
EXTENDS Naturals, Integers, Sequences, FiniteSets, TLC

VARIABLES
    \* ---- state of one process_file call
    pc,              \* position inside process_file
    input_exists,    \* input_path.exists()
    suffix,          \* input_path.suffix, as written on disk
    npages,          \* len(pages) returned by pdf2image.convert_from_path
    i,               \* loop index of extract_text_from_pdf
    extracted_text,  \* extracted_text, in the extractor and in process_file
    cleaned_text,    \* cleaned_text
    description,     \* description
    out_file,        \* contents of output_path
    ret,             \* return value of process_file
    calls,           \* calls made so far to collaborators and pipeline stages
    page_texts,      \* what pytesseract returned for each page so far
    \* ---- state of a direct call of one pure method
    arg,             \* the text the method was first called with
    out,             \* the latest value returned
    prev,            \* the value returned by the call before
    passes           \* number of calls made

procVars == <<pc, input_exists, suffix, npages, i, extracted_text, cleaned_text,
              description, out_file, ret, calls, page_texts>>
funVars  == <<arg, out, prev, passes>>
vars     == <<pc, input_exists, suffix, npages, i, extracted_text, cleaned_text,
              description, out_file, ret, calls, page_texts, arg, out, prev, passes>>

-----------------------------------------------------------------------------
(* Characters *)

UpperLetters ==
    <<"A","B","C","D","E","F","G","H","I","J","K","L","M",
      "N","O","P","Q","R","S","T","U","V","W","X","Y","Z">>
LowerLetters ==
    <<"a","b","c","d","e","f","g","h","i","j","k","l","m",
      "n","o","p","q","r","s","t","u","v","w","x","y","z">>
Digits == <<"0","1","2","3","4","5","6","7","8","9">>

Range(f) == { f[k] : k \in DOMAIN f }

UpperSet  == Range(UpperLetters)
LowerSet  == Range(LowerLetters)
LetterSet == UpperSet \cup LowerSet
DigitSet  == Range(Digits)
\* \w of the re module
WordSet   == LetterSet \cup DigitSet \cup {"_"}

IsUpper(c)  == c \in UpperSet
IsLower(c)  == c \in LowerSet
IsLetter(c) == c \in LetterSet
IsDigit(c)  == c \in DigitSet
IsWord(c)   == c \in WordSet
\* the characters str.strip() removes
IsSpace(c)  == c \in {" ", "\n", "\t", "\r", "\f"}

LowerOf ==
    [c \in UpperSet |-> LowerLetters[CHOOSE k \in DOMAIN UpperLetters : UpperLetters[k] = c]]
LowerChar(c) == IF IsUpper(c) THEN LowerOf[c] ELSE c
\* str.lower()
lower(s) == [k \in DOMAIN s |-> LowerChar(s[k])]

\* str.strip()
strip(s) ==
    LET keep == { k \in DOMAIN s : ~IsSpace(s[k]) }
        first == CHOOSE k \in keep : \A m \in keep : k <= m
        last  == CHOOSE k \in keep : \A m \in keep : m <= k
    IN  IF keep = {} THEN <<>> ELSE SubSeq(s, first, last)

\* \b at the gap before s[k] (k in 1..Len(s)+1)
WordBoundary(s, k) ==
    LET before == k > 1 /\ IsWord(s[k - 1])
        after  == k <= Len(s) /\ IsWord(s[k])
    IN  before # after

\* x in s, for str
RECURSIVE Concat(_)
Concat(ss) == IF ss = <<>> THEN <<>> ELSE Head(ss) \o Concat(Tail(ss))

Contains(s, x) ==
    \E k \in 1..(Len(s) - Len(x) + 1) : \A j \in DOMAIN x : s[k + j - 1] = x[j]

-----------------------------------------------------------------------------
(* clean_text *)

\* a match of ch+ starts at s[k]: the leftmost-first, greedy matches are the
\* maximal runs of ch
RunStartsAt(s, ch, k) == s[k] = ch /\ (k = 1 \/ s[k - 1] # ch)

IsKeptMark(m) == m.keep

\* re.sub(ch+, repl, s), for repl of at most one character: every character
\* outside a match is kept, every match leaves repl where it started
ReSubRun(s, ch, repl) ==
    LET marks == [k \in DOMAIN s |->
                    [ c    |-> IF s[k] = ch /\ repl # <<>> THEN repl[1] ELSE s[k],
                      keep |-> s[k] # ch \/ (repl # <<>> /\ RunStartsAt(s, ch, k)) ]]
        kept == SelectSeq(marks, IsKeptMark)
    IN  [k \in DOMAIN kept |-> kept[k].c]

SubNewlines(t) == ReSubRun(t, "\n", <<"\n">>)

SubSpacesDropped(t) == ReSubRun(t, " ", <<>>)
SubSpaces(t) == ReSubRun(t, " ", <<" ">>)

StripSkipped(t) == t
StripText(t) == strip(t)

clean_text(t) == StripText(SubSpaces(SubNewlines(t)))

-----------------------------------------------------------------------------
(* detect_content_type *)

FinancialWords ==
    { <<"i", "n", "v", "o", "i", "c", "e">>,
      <<"b", "i", "l", "l">>,
      <<"a", "m", "o", "u", "n", "t">>,
      <<"t", "o", "t", "a", "l">>,
      <<"p", "a", "y", "m", "e", "n", "t">> }
LetterWords ==
    { <<"d", "e", "a", "r">>,
      <<"s", "i", "n", "c", "e", "r", "e", "l", "y">>,
      <<"r", "e", "g", "a", "r", "d", "s">>,
      <<"l", "e", "t", "t", "e", "r">> }
RecipeWords ==
    { <<"r", "e", "c", "i", "p", "e">>,
      <<"i", "n", "g", "r", "e", "d", "i", "e", "n", "t", "s">>,
      <<"i", "n", "s", "t", "r", "u", "c", "t", "i", "o", "n", "s">>,
      <<"c", "o", "o", "k", "i", "n", "g">> }
ArticleWords ==
    { <<"a", "r", "t", "i", "c", "l", "e">>,
      <<"p", "a", "r", "a", "g", "r", "a", "p", "h">>,
      <<"s", "e", "c", "t", "i", "o", "n">>,
      <<"c", "h", "a", "p", "t", "e", "r">> }
MenuWords ==
    { <<"m", "e", "n", "u">>,
      <<"p", "r", "i", "c", "e">>,
      <<"r", "e", "s", "t", "a", "u", "r", "a", "n", "t">>,
      <<"f", "o", "o", "d">> }

\* any(word in text_lower for word in [...])
AnyWordIn(ws, text_lower) == \E w \in ws : Contains(text_lower, w)

AllDigits(s, a, b) == \A m \in a..b : m <= Len(s) /\ IsDigit(s[m])
IsDateSep(s, m) == m <= Len(s) /\ s[m] \in {"/", "-"}

YearDigitsTwoOrFour == {2, 4}
\* {2,4} of the date pattern
YearDigits == 2..4

\* \b\d{1,2}[\/\-]\d{1,2}[\/\-]\d{2,4}\b matched at s[k]
DateMatchAt(s, k) ==
    /\ WordBoundary(s, k)
    /\ \E a \in 1..2 :
         /\ AllDigits(s, k, k + a - 1)
         /\ IsDateSep(s, k + a)
         /\ \E b \in 1..2 :
              /\ AllDigits(s, k + a + 1, k + a + b)
              /\ IsDateSep(s, k + a + b + 1)
              /\ \E c \in YearDigits :
                   /\ AllDigits(s, k + a + b + 2, k + a + b + 1 + c)
                   /\ WordBoundary(s, k + a + b + 2 + c)

\* re.search(date pattern, text)
SearchDate(s) == \E k \in 1..Len(s) : DateMatchAt(s, k)

IsLocalChar(c)  == IsLetter(c) \/ IsDigit(c) \/ c \in {".", "_", "%", "+", "-"}
IsDomainChar(c) == IsLetter(c) \/ IsDigit(c) \/ c \in {".", "-"}
IsTldChar(c)    == IsLetter(c) \/ c = "|"

\* \b[A-Za-z0-9._%+-]+@[A-Za-z0-9.-]+\.[A-Z|a-z]{2,}\b matched at s[k]
EmailMatchAt(s, k) ==
    /\ WordBoundary(s, k)
    /\ \E at \in (k + 1)..Len(s) :
         /\ s[at] = "@"
         /\ \A m \in k..(at - 1) : IsLocalChar(s[m])
         /\ \E dot \in (at + 2)..Len(s) :
              /\ s[dot] = "."
              /\ \A m \in (at + 1)..(dot - 1) : IsDomainChar(s[m])
              /\ \E last \in (dot + 2)..Len(s) :
                   /\ \A m \in (dot + 1)..last : IsTldChar(s[m])
                   /\ WordBoundary(s, last + 1)

\* re.search(email pattern, text)
SearchEmail(s) == \E k \in 1..Len(s) : EmailMatchAt(s, k)

TextLowerUnchanged(t) == t
\* text_lower = text.lower()
TextLower(t) == lower(t)

detect_content_type(t) ==
    LET text_lower == TextLower(t)
    IN  IF AnyWordIn(FinancialWords, text_lower) THEN "Financial Document/Invoice"
        ELSE IF AnyWordIn(LetterWords, text_lower) THEN "Letter/Correspondence"
        ELSE IF AnyWordIn(RecipeWords, text_lower) THEN "Recipe"
        ELSE IF AnyWordIn(ArticleWords, text_lower) THEN "Article/Document"
        ELSE IF AnyWordIn(MenuWords, text_lower) THEN "Menu"
        ELSE IF SearchDate(t) THEN "Document with Dates"
        ELSE IF SearchEmail(t) THEN "Document with Email Addresses"
        ELSE "General Text Document"

-----------------------------------------------------------------------------
(* analyze_content *)

stop_words ==
    { <<"t", "h", "e">>,
      <<"a">>,
      <<"a", "n">>,
      <<"a", "n", "d">>,
      <<"o", "r">>,
      <<"b", "u", "t">>,
      <<"i", "n">>,
      <<"o", "n">>,
      <<"a", "t">>,
      <<"t", "o">>,
      <<"f", "o", "r">>,
      <<"o", "f">>,
      <<"w", "i", "t", "h">>,
      <<"b", "y">>,
      <<"i", "s">>,
      <<"a", "r", "e">>,
      <<"w", "a", "s">>,
      <<"w", "e", "r", "e">>,
      <<"b", "e">>,
      <<"b", "e", "e", "n">>,
      <<"b", "e", "i", "n", "g">>,
      <<"h", "a", "v", "e">>,
      <<"h", "a", "s">>,
      <<"h", "a", "d">>,
      <<"d", "o">>,
      <<"d", "o", "e", "s">>,
      <<"d", "i", "d">>,
      <<"w", "i", "l", "l">>,
      <<"w", "o", "u", "l", "d">>,
      <<"c", "o", "u", "l", "d">>,
      <<"s", "h", "o", "u", "l", "d">>,
      <<"m", "a", "y">>,
      <<"m", "i", "g", "h", "t">>,
      <<"m", "u", "s", "t">>,
      <<"c", "a", "n">>,
      <<"t", "h", "i", "s">>,
      <<"t", "h", "a", "t">>,
      <<"t", "h", "e", "s", "e">>,
      <<"t", "h", "o", "s", "e">>,
      <<"i">>,
      <<"y", "o", "u">>,
      <<"h", "e">>,
      <<"s", "h", "e">>,
      <<"i", "t">>,
      <<"w", "e">>,
      <<"t", "h", "e", "y">>,
      <<"m", "e">>,
      <<"h", "i", "m">>,
      <<"h", "e", "r">>,
      <<"u", "s">>,
      <<"t", "h", "e", "m">> }

TopN == 10
PreviewLen == 200

\* len(text.split())
SplitCount(t) ==
    Cardinality({ k \in DOMAIN t : ~IsSpace(t[k]) /\ (k = 1 \/ IsSpace(t[k - 1])) })

\* len(text.split('\n'))
SplitLinesCount(t) == Cardinality({ k \in DOMAIN t : t[k] = "\n" }) + 1

\* length of the run of letters that starts at s[k]
RECURSIVE LetterRunLen(_, _)
LetterRunLen(s, k) ==
    IF k <= Len(s) /\ IsLetter(s[k]) THEN 1 + LetterRunLen(s, k + 1) ELSE 0

\* length of the match of \b[a-zA-Z]+\b at s[k], 0 when there is none: the
\* greedy run, given back letter by letter until \b holds behind it
WordMatchLen(s, k) ==
    LET n == LetterRunLen(s, k)
        ends == { m \in 1..n : WordBoundary(s, k + m) }
    IN  IF WordBoundary(s, k) /\ ends # {}
        THEN CHOOSE m \in ends : \A m2 \in ends : m2 <= m
        ELSE 0

BareRunMatchLen(s, k) == LetterRunLen(s, k)

TokenMatchLen(s, k) == WordMatchLen(s, k)

\* re.findall(r'\b[a-zA-Z]+\b', s), scanning s from s[k]: the leftmost match
\* at or after s[k], then the scan goes on behind it
RECURSIVE FindAllWords(_, _)
FindAllWords(s, k) ==
    LET found == { m \in k..Len(s) : TokenMatchLen(s, m) > 0 }
    IN  IF found = {} THEN <<>>
        ELSE LET m == CHOOSE x \in found : \A y \in found : x <= y
                 n == TokenMatchLen(s, m)
             IN  <<SubSeq(s, m, m + n - 1)>> \o FindAllWords(s, m + n)

words(t) == FindAllWords(lower(t), 1)

\* word not in stop_words and len(word) > 2
KeepsWord(w) == w \notin stop_words /\ Len(w) > 2

\* [word for word in words if ...]
filtered_words(ws) == SelectSeq(ws, KeepsWord)

\* Counter(ws): the (word, count) items in order of first insertion
RECURSIVE Counter(_)
Counter(ws) ==
    IF ws = <<>> THEN <<>>
    ELSE LET c == Counter(SubSeq(ws, 1, Len(ws) - 1))
             w == ws[Len(ws)]
         IN  IF \E k \in DOMAIN c : c[k].word = w
             THEN [k \in DOMAIN c |->
                     IF c[k].word = w THEN [word |-> w, count |-> c[k].count + 1]
                     ELSE c[k]]
             ELSE Append(c, [word |-> w, count |-> 1])

RECURSIVE SortedTiesLastFirst(_)
SortedTiesLastFirst(items) ==
    IF items = <<>> THEN <<>>
    ELSE LET best == CHOOSE k \in DOMAIN items :
                        /\ \A m \in DOMAIN items : items[m].count <= items[k].count
                        /\ \A m \in (k + 1)..Len(items) : items[m].count < items[k].count
             rest == [m \in 1..(Len(items) - 1) |->
                        IF m < best THEN items[m] ELSE items[m + 1]]
         IN  <<items[best]>> \o SortedTiesLastFirst(rest)

\* items sorted by count, largest first, equal counts in their order in items
RECURSIVE SortedByCount(_)
SortedByCount(items) ==
    IF items = <<>> THEN <<>>
    ELSE LET best == CHOOSE k \in DOMAIN items :
                        /\ \A m \in DOMAIN items : items[m].count <= items[k].count
                        /\ \A m \in 1..(k - 1) : items[m].count < items[k].count
             rest == [m \in 1..(Len(items) - 1) |->
                        IF m < best THEN items[m] ELSE items[m + 1]]
         IN  <<items[best]>> \o SortedByCount(rest)

\* Counter.most_common(n)
most_common(items, n) ==
    LET sorted == SortedByCount(items)
    IN  SubSeq(sorted, 1, IF Len(sorted) < n THEN Len(sorted) ELSE n)

NoTextReport ==
    [kind |-> "message", message |-> "No text could be extracted from the file."]

\* the local variables of analyze_content when it returns
AnalyzeLocals(t) ==
    LET ws == words(t)
        fw == filtered_words(ws)
    IN  [ word_count     |-> SplitCount(t),
          char_count     |-> Len(t),
          line_count     |-> SplitLinesCount(t),
          words          |-> ws,
          filtered_words |-> fw,
          common_words   |-> most_common(Counter(fw), TopN),
          content_type   |-> detect_content_type(t) ]

\* description: the sections of the f-string, in the order it renders them
Description(t, l) ==
    [ kind         |-> "report",
      header       |-> "TEXT ANALYSIS REPORT",
      content_type |-> l.content_type,
      word_count   |-> l.word_count,
      char_count   |-> l.char_count,
      line_count   |-> l.line_count,
      common_words |-> l.common_words,
      preview      |-> SubSeq(t, 1, IF Len(t) < PreviewLen THEN Len(t) ELSE PreviewLen),
      ellipsis     |-> Len(t) > PreviewLen,
      full_text    |-> t ]

analyze_content(t) ==
    IF t = <<>> THEN NoTextReport ELSE Description(t, AnalyzeLocals(t))

-----------------------------------------------------------------------------
(* extract_text_from_image, extract_text_from_pdf, process_file *)

\* str(n) for n >= 0
IntToStr[n \in Nat] ==
    IF n < 10 THEN <<Digits[n + 1]>>
    ELSE IntToStr[n \div 10] \o <<Digits[(n % 10) + 1]>>

PageNumberZeroBased(k) == k
\* {i+1} of the page header
PageNumber(k) == k + 1

\* f"\n--- Page {i+1} ---\n"
PageHeader(k) ==
    <<"\n", "-", "-", "-", " ", "P", "a", "g", "e", " ">> \o IntToStr[PageNumber(k)] \o <<" ", "-", "-", "-", "\n">>

\* the two += of the loop body
AppendPage(text, k, page_text) ==
    text \o PageHeader(k) \o strip(page_text) \o <<"\n">>

PdfErrorKeepsPages(text) == strip(text)
\* except Exception: return ""
PdfErrorResult(text) == <<>>

ImageErrorResult == <<>>

FileExtensionAsWritten(sfx) == sfx
\* input_path.suffix.lower()
FileExtension(sfx) == lower(sfx)

PdfExtension == <<".", "p", "d", "f">>
ImageExtensions ==
    { <<".", "j", "p", "g">>,
      <<".", "j", "p", "e", "g">>,
      <<".", "p", "n", "g">>,
      <<".", "b", "m", "p">>,
      <<".", "t", "i", "f", "f">>,
      <<".", "g", "i", "f">> }

ExistsIgnored(e) == TRUE
\* input_path.exists()
PathExists(e) == e

Event(op, ev, page) == [op |-> op, ev |-> ev, page |-> page]

-----------------------------------------------------------------------------
(* Bounds and inputs of the direct calls *)

MaxCleanLen == 5
MaxPasses == 2

SeqsUpTo(A, n) == UNION { [1..m -> A] : m \in 0..n }

CleanAlphabet == {" ", "\n", "\t", "a"}
CleanInputs == SeqsUpTo(CleanAlphabet, MaxCleanLen)

\* texts for detect_content_type: up to MaxClassFrags fragments run together,
\* and date-like texts with 1..MaxDayDigits and 1..MaxYearDigits digits
MaxClassFrags == 3
MaxDayDigits == 3
MaxYearDigits == 5

ClassFrags ==
    { <<"I", "n", "v", "o", "i", "c", "e">>,
      <<"d", "e", "a", "r">>,
      <<"R", "e", "c", "i", "p", "e">>,
      <<"s", "e", "c", "t", "i", "o", "n">>,
      <<"M", "E", "N", "U">>,
      <<" ", "1", "/", "2", "/", "2", "0", " ">>,
      <<" ", "a", "@", "b", ".", "c", "o">>,
      <<" ">>,
      <<"x">>,
      <<"p", "a", "y">>,
      <<"m", "e", "n", "t">> }

ClassFragInputs == { Concat(fs) : fs \in SeqsUpTo(ClassFrags, MaxClassFrags) }

DigitRun(n) == [k \in 1..n |-> Digits[(k % 9) + 1]]
DatePrefixes ==
    { <<>>,
      <<"x">>,
      <<" ">>,
      <<"1">>,
      <<"_">>,
      <<"o", "n", " ">>,
      <<"B", "i", "l", "l", " ">> }
DateSuffixes ==
    { <<>>,
      <<"x">>,
      <<" ">>,
      <<".">>,
      <<"_">> }

DateInputs ==
    { pre \o DigitRun(a) \o <<s1>> \o DigitRun(b) \o <<s2>> \o DigitRun(c) \o post :
        pre \in DatePrefixes, a \in 1..MaxDayDigits, s1 \in {"/", "-", "."},
        b \in 0..2, s2 \in {"/", "-"}, c \in 1..MaxYearDigits, post \in DateSuffixes }

ClassifyInputs == ClassFragInputs \cup DateInputs

\* process_file: the suffixes of the input path, the texts pytesseract may
\* return, and the most pages a PDF has
MaxPages == 3

Suffixes ==
    { <<".", "p", "d", "f">>,
      <<".", "P", "D", "F">>,
      <<".", "j", "p", "g">>,
      <<".", "j", "p", "e", "g">>,
      <<".", "P", "n", "g">>,
      <<".", "b", "m", "p">>,
      <<".", "t", "i", "f", "f">>,
      <<".", "G", "I", "F">>,
      <<".", "t", "x", "t">>,
      <<".", "d", "o", "c", "x">>,
      <<>> }
OcrTexts ==
    { <<>>,
      <<"A">>,
      <<" ", "B", "\n">>,
      <<"t", "h", "e", " ", "c", "a", "t", "\n", "\n", "\n", "c", "a", "t", " ", " ", "s", "a", "t">> }

\* texts for analyze_content: nothing or eleven distinct words, then up to
\* MaxLexFrags fragments run together
MaxLexFrags == 3

LexBase ==
    <<"a", "n", "t", " ", "b", "e", "e", " ", "c", "o", "w", " ", "e", "l", "k", " ", "f", "o", "x", " ", "g", "n", "u", " ", "h", "e", "n", " ", "j", "a", "y", " ", "k", "o", "i", " ", "o", "w", "l", " ", "y", "a", "k", " ">>
LexFrags ==
    { <<"y", "a", "k", " ">>,
      <<"C", "a", "t", " ">>,
      <<"t", "h", "e", " ">>,
      <<"o", "n", " ">>,
      <<"o", "w", "l">>,
      <<"\n">>,
      <<"a", "b", "c", "1", "2", "3", " ">>,
      <<"f", "o", "o", "_", "b", "a", "r">> }

LexInputs ==
    { base \o Concat(fs) : base \in {<<>>, LexBase}, fs \in SeqsUpTo(LexFrags, MaxLexFrags) }

\* no process_file call is running
Unwritten == [kind |-> "absent"]
NoValue == [kind |-> "none"]
ProcIdle ==
    /\ pc = "idle"
    /\ input_exists = FALSE
    /\ suffix = <<>>
    /\ npages = 0
    /\ i = 0
    /\ extracted_text = <<>>
    /\ cleaned_text = <<>>
    /\ description = NoValue
    /\ out_file = Unwritten
    /\ ret = NoValue
    /\ calls = <<>>
    /\ page_texts = <<>>

-----------------------------------------------------------------------------
(* clean_text called directly, and again on its own result *)

InitClean ==
    /\ ProcIdle
    /\ arg \in CleanInputs
    /\ out = arg
    /\ prev = arg
    /\ passes = 0

CallCleanText ==
    /\ passes < MaxPasses
    /\ prev' = out
    /\ out' = clean_text(out)
    /\ passes' = passes + 1
    /\ UNCHANGED <<arg, procVars>>

NextClean == CallCleanText

SpecClean == InitClean /\ [][NextClean]_vars

\* C7: clean_text is idempotent: cleaning an already cleaned text returns it
\* unchanged.
C7_CleanIdempotent == passes >= 2 => out = prev

C7_Witness == passes = 2 /\ prev # arg /\ prev # <<>> /\ out = prev

\* C8: clean_text(x) is no longer than x, holds no two consecutive newlines
\* and no two consecutive spaces, has no leading or trailing whitespace, and
\* clean_text of the empty string is the empty string.
C8_CleanShape ==
    passes = 1 =>
        /\ Len(out) <= Len(arg)
        /\ \A k \in 1..(Len(out) - 1) :
               /\ ~(out[k] = "\n" /\ out[k + 1] = "\n")
               /\ ~(out[k] = " " /\ out[k + 1] = " ")
        /\ out # <<>> => (~IsSpace(out[1]) /\ ~IsSpace(out[Len(out)]))
        /\ arg = <<>> => out = <<>>

C8_Witness ==
    /\ passes = 1
    /\ Len(out) >= 3
    /\ Len(out) < Len(arg)
    /\ IsSpace(arg[1])
    /\ \E k \in 1..(Len(arg) - 1) : arg[k] = arg[k + 1] /\ arg[k] \in {" ", "\n"}

-----------------------------------------------------------------------------
(* detect_content_type called directly *)

InitClassify ==
    /\ ProcIdle
    /\ arg \in ClassifyInputs
    /\ out = NoValue
    /\ prev = NoValue
    /\ passes = 0

CallDetectContentType ==
    /\ passes = 0
    /\ out' = detect_content_type(arg)
    /\ passes' = 1
    /\ UNCHANGED <<arg, prev, procVars>>

NextClassify == CallDetectContentType

SpecClassify == InitClassify /\ [][NextClassify]_vars

\* the text holds keyword w, in any mix of upper and lower case
ContainsCI(t, w) ==
    \E k \in 1..(Len(t) - Len(w) + 1) :
        \A j \in 1..Len(w) : LowerChar(t[k + j - 1]) = w[j]

RuleMatches(n, t) ==
    CASE n = 1 -> \E w \in FinancialWords : ContainsCI(t, w)
      [] n = 2 -> \E w \in LetterWords : ContainsCI(t, w)
      [] n = 3 -> \E w \in RecipeWords : ContainsCI(t, w)
      [] n = 4 -> \E w \in ArticleWords : ContainsCI(t, w)
      [] n = 5 -> \E w \in MenuWords : ContainsCI(t, w)
      [] n = 6 -> SearchDate(t)
      [] n = 7 -> SearchEmail(t)

RuleLabels ==
    << "Financial Document/Invoice", "Letter/Correspondence", "Recipe",
       "Article/Document", "Menu", "Document with Dates",
       "Document with Email Addresses", "General Text Document" >>

FirstRule(t) ==
    IF \E n \in 1..7 : RuleMatches(n, t)
    THEN CHOOSE n \in 1..7 : RuleMatches(n, t) /\ \A m \in 1..(n - 1) : ~RuleMatches(m, t)
    ELSE 8

\* C1: detect_content_type returns exactly one of the eight labels, the one
\* of the first rule that matches in the order Financial, Letter, Recipe,
\* Article, Menu, Dates, Emails (General Text when none does); keywords match
\* in any letter case, and a text with a rule-1 keyword is Financial whatever
\* else it holds.
C1_FirstMatchingRule ==
    passes = 1 =>
        /\ out \in Range(RuleLabels)
        /\ out = RuleLabels[FirstRule(arg)]
        /\ RuleMatches(1, arg) => out = "Financial Document/Invoice"

C1_Witness ==
    /\ passes = 1
    /\ out = "Financial Document/Invoice"
    /\ ~AnyWordIn(FinancialWords, arg)
    /\ RuleMatches(2, arg)
    /\ RuleMatches(6, arg)

\* a date stands at t[k]: a..b digits, a separator, a..b digits, a separator
\* and a number of digits in ylens, with no letter, digit or underscore
\* directly before or after
DateAt(t, k, ylens) ==
    \E a \in 1..2, b \in 1..2, c \in ylens :
        LET s1 == k + a
            s2 == s1 + b + 1
            e  == s2 + c
        IN  /\ e <= Len(t)
            /\ \A m \in (k..e) \ {s1, s2} : IsDigit(t[m])
            /\ t[s1] \in {"/", "-"}
            /\ t[s2] \in {"/", "-"}
            /\ k = 1 \/ ~IsWord(t[k - 1])
            /\ e = Len(t) \/ ~IsWord(t[e + 1])

HasDate(t, ylens) == \E k \in 1..Len(t) : DateAt(t, k, ylens)

NoKeyword(t) == \A n \in 1..5 : ~RuleMatches(n, t)

\* C10 (as amended): a text with no keyword of rules 1-5 is labelled
\* Document with Dates exactly when it holds, between word boundaries, 1-2
\* digits, '/' or '-', 1-2 digits, '/' or '-', then 2, 3 or 4 digits.
C10_DatesTwoToFourDigitYear ==
    (passes = 1 /\ NoKeyword(arg)) =>
        (out = "Document with Dates" <=> HasDate(arg, 2..4))

C10_Witness ==
    /\ passes = 1
    /\ NoKeyword(arg)
    /\ out = "Document with Dates"
    /\ HasDate(arg, {3})
    /\ ~HasDate(arg, {2, 4})

\* C10 (as claimed): a text with no keyword of rules 1-5 is labelled Document
\* with Dates exactly when it holds a date whose year has 2 or 4 digits; a
\* 3-digit year does not count.
C10_DatesTwoOrFourDigitYear ==
    (passes = 1 /\ NoKeyword(arg)) =>
        (out = "Document with Dates" <=> HasDate(arg, {2, 4}))

-----------------------------------------------------------------------------
(* analyze_content called directly *)

InitLex ==
    /\ ProcIdle
    /\ arg \in LexInputs
    /\ out = NoValue
    /\ prev = NoValue
    /\ passes = 0

CallAnalyzeContent ==
    /\ passes = 0
    /\ out' = IF arg = <<>>
              THEN [ description |-> analyze_content(arg), locals |-> NoValue ]
              ELSE LET l == AnalyzeLocals(arg)
                   IN  [ description |-> Description(arg, l), locals |-> l ]
    /\ passes' = 1
    /\ UNCHANGED <<arg, prev, procVars>>

NextLex == CallAnalyzeContent

SpecLex == InitLex /\ [][NextLex]_vars

\* positions where a maximal run of ASCII letters starts, and where it ends
RunStarts(t) == { k \in DOMAIN t : IsLetter(t[k]) /\ (k = 1 \/ ~IsLetter(t[k - 1])) }
RunEnd(t, k) ==
    CHOOSE e \in k..Len(t) :
        /\ \A m \in k..e : IsLetter(t[m])
        /\ e = Len(t) \/ ~IsLetter(t[e + 1])

\* the run has no letter, digit or underscore directly before or after it
RunIsWord(t, k) ==
    /\ k = 1 \/ ~IsWord(t[k - 1])
    /\ RunEnd(t, k) = Len(t) \/ ~IsWord(t[RunEnd(t, k) + 1])

\* the runs that start at the positions in starts, lowercased, left to right
RECURSIVE RunsOf(_, _)
RunsOf(t, starts) ==
    IF starts = {} THEN <<>>
    ELSE LET k == CHOOSE x \in starts : \A y \in starts : x <= y
         IN  <<lower(SubSeq(t, k, RunEnd(t, k)))>> \o RunsOf(t, starts \ {k})

\* C9 (as amended): the tokens counted are the maximal runs of ASCII letters
\* that stand between word boundaries, lowercased; a run directly next to a
\* digit or an underscore is not a token.
C9_TokensAreWordBoundedRuns ==
    (passes = 1 /\ arg # <<>>) =>
        out.locals.words = RunsOf(arg, { k \in RunStarts(arg) : RunIsWord(arg, k) })

C9_Witness ==
    /\ passes = 1
    /\ arg # <<>>
    /\ \E k \in RunStarts(arg) : ~RunIsWord(arg, k)
    /\ \E k \in RunStarts(arg) : RunIsWord(arg, k) /\ IsUpper(arg[k])
    /\ Len(out.locals.words) >= 2

\* C9 (as claimed): the tokens counted are exactly the maximal runs of ASCII
\* letters, lowercased, also when a run is directly next to a digit or an
\* underscore.
C9_TokensAreAllLetterRuns ==
    (passes = 1 /\ arg # <<>>) =>
        out.locals.words = RunsOf(arg, RunStarts(arg))

\* number of times w is a token of the text, and where it first is one
Occurrences(ws, w) == Cardinality({ k \in DOMAIN ws : ws[k] = w })
FirstIndex(ws, w) == CHOOSE k \in DOMAIN ws : ws[k] = w /\ \A m \in 1..(k - 1) : ws[m] # w

\* C6: the Most Common Words list has at most 10 entries, no stop word and
\* no token of length <= 2; each count is the number of occurrences of the
\* token; counts descend, equal counts stand in order of first occurrence,
\* and no token left out has a higher count than one listed.
C6_MostCommonWords ==
    (passes = 1 /\ arg # <<>>) =>
        LET cw == out.description.common_words
            ws == out.locals.words
            listed == { cw[k].word : k \in DOMAIN cw }
        IN  /\ Len(cw) <= 10
            /\ \A k \in DOMAIN cw :
                   /\ cw[k].word \notin stop_words
                   /\ Len(cw[k].word) > 2
                   /\ cw[k].count = Occurrences(ws, cw[k].word)
                   /\ cw[k].count >= 1
            /\ \A k, m \in DOMAIN cw :
                   k < m =>
                       /\ cw[k].count >= cw[m].count
                       /\ cw[k].word # cw[m].word
                       /\ cw[k].count = cw[m].count =>
                              FirstIndex(ws, cw[k].word) < FirstIndex(ws, cw[m].word)
            /\ \A w \in Range(ws) \ listed :
                   (w \notin stop_words /\ Len(w) > 2) =>
                       /\ Len(cw) = 10
                       /\ \A k \in DOMAIN cw : Occurrences(ws, w) <= cw[k].count

C6_Witness ==
    /\ passes = 1
    /\ arg # <<>>
    /\ LET cw == out.description.common_words
           ws == out.locals.words
       IN  /\ Len(cw) = 10
           /\ cw[1].count = 2
           /\ cw[2].count = 1
           /\ cw[10].count = 1
           /\ FirstIndex(ws, cw[1].word) > FirstIndex(ws, cw[2].word)
           /\ \E w \in Range(ws) : w \in stop_words
           /\ Cardinality({ w \in Range(ws) : w \notin stop_words /\ Len(w) > 2 }) > 11

-----------------------------------------------------------------------------
(* process_file *)

Init ==
    /\ pc = "start"
    /\ input_exists \in BOOLEAN
    /\ suffix \in Suffixes
    /\ npages = 0
    /\ i = 0
    /\ extracted_text = <<>>
    /\ cleaned_text = <<>>
    /\ description = NoValue
    /\ out_file = Unwritten
    /\ ret = NoValue
    /\ calls = <<>>
    /\ page_texts = <<>>
    /\ arg = <<>>
    /\ out = NoValue
    /\ prev = NoValue
    /\ passes = 0

\* if not input_path.exists(): return False
CheckExists ==
    /\ pc = "start"
    /\ IF PathExists(input_exists)
       THEN pc' = "dispatch" /\ UNCHANGED ret
       ELSE pc' = "done" /\ ret' = FALSE
    /\ UNCHANGED <<input_exists, suffix, npages, i, extracted_text, cleaned_text,
                   description, out_file, calls, page_texts, funVars>>

\* the if / elif / else on file_extension
Dispatch ==
    /\ pc = "dispatch"
    /\ LET file_extension == FileExtension(suffix)
       IN  IF file_extension = PdfExtension
           THEN pc' = "pdf_convert" /\ UNCHANGED ret
           ELSE IF file_extension \in ImageExtensions
                THEN pc' = "img_open" /\ UNCHANGED ret
                ELSE pc' = "done" /\ ret' = FALSE
    /\ UNCHANGED <<input_exists, suffix, npages, i, extracted_text, cleaned_text,
                   description, out_file, calls, page_texts, funVars>>

\* pages = pdf2image.convert_from_path(pdf_path, dpi=300); extracted_text = ""
PdfConvert ==
    /\ pc = "pdf_convert"
    /\ \/ /\ calls' = Append(calls, Event("convert_from_path", "raise", 0))
          /\ extracted_text' = PdfErrorResult(extracted_text)
          /\ pc' = "pipeline"
          /\ UNCHANGED npages
       \/ \E n \in 0..MaxPages :
             /\ calls' = Append(calls, Event("convert_from_path", "return", 0))
             /\ npages' = n
             /\ extracted_text' = <<>>
             /\ pc' = "pdf_loop"
    /\ i' = 0
    /\ UNCHANGED <<input_exists, suffix, cleaned_text, description, out_file, ret,
                   page_texts, funVars>>

\* for i, page in enumerate(pages): the call of pytesseract.image_to_string
PdfOcrCall ==
    /\ pc = "pdf_loop"
    /\ i < npages
    /\ calls' = Append(calls, Event("image_to_string", "call", i + 1))
    /\ pc' = "pdf_ocr"
    /\ UNCHANGED <<input_exists, suffix, npages, i, extracted_text, cleaned_text,
                   description, out_file, ret, page_texts, funVars>>

\* image_to_string returns page_text, or raises into the except clause
PdfOcrReturn ==
    /\ pc = "pdf_ocr"
    /\ \/ /\ calls' = Append(calls, Event("image_to_string", "raise", i + 1))
          /\ extracted_text' = PdfErrorResult(extracted_text)
          /\ pc' = "pipeline"
          /\ UNCHANGED <<i, page_texts>>
       \/ \E page_text \in OcrTexts :
             /\ calls' = Append(calls, Event("image_to_string", "return", i + 1))
             /\ extracted_text' = AppendPage(extracted_text, i, page_text)
             /\ page_texts' = Append(page_texts, page_text)
             /\ i' = i + 1
             /\ pc' = "pdf_loop"
    /\ UNCHANGED <<input_exists, suffix, npages, cleaned_text, description, out_file,
                   ret, funVars>>

\* the loop is over: return extracted_text.strip()
PdfReturn ==
    /\ pc = "pdf_loop"
    /\ i >= npages
    /\ extracted_text' = strip(extracted_text)
    /\ pc' = "pipeline"
    /\ UNCHANGED <<input_exists, suffix, npages, i, cleaned_text, description, out_file,
                   ret, calls, page_texts, funVars>>

\* image = Image.open(image_path); image.convert('RGB') unless it is RGB
ImageOpen ==
    /\ pc = "img_open"
    /\ \/ /\ calls' = Append(calls, Event("Image.open", "raise", 0))
          /\ extracted_text' = ImageErrorResult
          /\ pc' = "pipeline"
       \/ /\ calls' = Append(calls, Event("Image.open", "return", 0))
          /\ pc' = "img_ocr"
          /\ UNCHANGED extracted_text
       \/ /\ calls' = calls \o << Event("Image.open", "return", 0),
                                  Event("Image.convert", "return", 0) >>
          /\ pc' = "img_ocr"
          /\ UNCHANGED extracted_text
       \/ /\ calls' = calls \o << Event("Image.open", "return", 0),
                                  Event("Image.convert", "raise", 0) >>
          /\ extracted_text' = ImageErrorResult
          /\ pc' = "pipeline"
    /\ UNCHANGED <<input_exists, suffix, npages, i, cleaned_text, description, out_file,
                   ret, page_texts, funVars>>

\* text = pytesseract.image_to_string(image, lang='eng'); return text.strip()
ImageOcr ==
    /\ pc = "img_ocr"
    /\ \/ /\ calls' = calls \o << Event("image_to_string", "call", 1),
                                  Event("image_to_string", "raise", 1) >>
          /\ extracted_text' = ImageErrorResult
          /\ UNCHANGED page_texts
       \/ \E t \in OcrTexts :
             /\ calls' = calls \o << Event("image_to_string", "call", 1),
                                     Event("image_to_string", "return", 1) >>
             /\ extracted_text' = strip(t)
             /\ page_texts' = Append(page_texts, t)
    /\ pc' = "pipeline"
    /\ UNCHANGED <<input_exists, suffix, npages, i, cleaned_text, description, out_file,
                   ret, funVars>>

\* cleaned_text = self.clean_text(extracted_text)
\* description = self.analyze_content(cleaned_text)
Pipeline ==
    /\ pc = "pipeline"
    /\ cleaned_text' = clean_text(extracted_text)
    /\ description' = analyze_content(cleaned_text')
    /\ calls' = calls \o << Event("clean_text", "return", 0),
                            Event("analyze_content", "return", 0) >>
    /\ pc' = "write"
    /\ UNCHANGED <<input_exists, suffix, npages, i, extracted_text, out_file, ret,
                   page_texts, funVars>>

\* with open(output_path, 'w', encoding='utf-8') as f: f.write(description)
WriteReport ==
    /\ pc = "write"
    /\ \/ /\ calls' = Append(calls, Event("write", "return", 0))
          /\ out_file' = description
          /\ ret' = TRUE
       \/ /\ calls' = Append(calls, Event("open", "raise", 0))
          /\ UNCHANGED out_file
          /\ ret' = FALSE
       \/ /\ calls' = Append(calls, Event("write", "raise", 0))
          /\ out_file' = [kind |-> "truncated"]
          /\ ret' = FALSE
    /\ pc' = "done"
    /\ UNCHANGED <<input_exists, suffix, npages, i, extracted_text, cleaned_text,
                   description, page_texts, funVars>>

Next ==
    \/ CheckExists
    \/ Dispatch
    \/ PdfConvert
    \/ PdfOcrCall
    \/ PdfOcrReturn
    \/ PdfReturn
    \/ ImageOpen
    \/ ImageOcr
    \/ Pipeline
    \/ WriteReport

Spec == Init /\ [][Next]_vars

\* the collaborators: image opener, PDF rasterizer, OCR engine
CollaboratorOps == {"Image.open", "Image.convert", "convert_from_path", "image_to_string"}

ExtractionFailed ==
    \E k \in DOMAIN calls : calls[k].op \in CollaboratorOps /\ calls[k].ev = "raise"
PipelineRan ==
    /\ \E k \in DOMAIN calls : calls[k].op = "clean_text"
    /\ \E k \in DOMAIN calls : calls[k].op = "analyze_content"
WriteSucceeded ==
    \E k \in DOMAIN calls : calls[k].op = "write" /\ calls[k].ev = "return"
WriteFailed ==
    \E k \in DOMAIN calls : calls[k].op \in {"open", "write"} /\ calls[k].ev = "raise"

SupportedExtensions ==
    { <<".", "p", "d", "f">>,
      <<".", "j", "p", "g">>,
      <<".", "j", "p", "e", "g">>,
      <<".", "p", "n", "g">>,
      <<".", "b", "m", "p">>,
      <<".", "t", "i", "f", "f">>,
      <<".", "g", "i", "f">> }
HasSupportedExtension ==
    \E e \in SupportedExtensions :
        /\ Len(e) = Len(suffix)
        /\ \A k \in DOMAIN e : LowerChar(suffix[k]) = e[k]

\* C2: when a collaborator fails (image open or recognition, rasterization,
\* or recognition of any one PDF page), the failure is not propagated: the
\* raw text is empty, with no header or text of earlier pages, the pipeline
\* still runs, the report written is exactly the fixed 'no text' message, and
\* process_file returns true if the write succeeds.
C2_FailureYieldsEmptyReport ==
    ExtractionFailed =>
        /\ pc \in {"pipeline", "write", "done"}
        /\ extracted_text = <<>>
        /\ pc \in {"write", "done"} =>
              /\ PipelineRan
              /\ cleaned_text = <<>>
              /\ description = NoTextReport
        /\ pc = "done" =>
              /\ ret = WriteSucceeded
              /\ WriteSucceeded => out_file = NoTextReport

C2_Witness ==
    /\ pc = "done"
    /\ ExtractionFailed
    /\ \E k \in DOMAIN calls :
          calls[k] = Event("image_to_string", "raise", 3)
    /\ \E k \in DOMAIN page_texts : strip(page_texts[k]) # <<>>
    /\ ret = TRUE
    /\ out_file = NoTextReport

\* C3: process_file returns true exactly when the input exists, its
\* extension, compared without regard to case, is one of the seven supported
\* ones, and the report was written without error, whether or not extraction
\* succeeded; on a false return for a missing input or an unsupported
\* extension nothing has been written to the output path.
C3_ReturnValue ==
    pc = "done" =>
        /\ ret \in BOOLEAN
        /\ ret = (input_exists /\ HasSupportedExtension /\ WriteSucceeded)
        /\ ret = FALSE => (~input_exists \/ ~HasSupportedExtension \/ WriteFailed)
        /\ (~input_exists \/ ~HasSupportedExtension) =>
              /\ ret = FALSE
              /\ out_file = Unwritten
              /\ \A k \in DOMAIN calls : calls[k].op \notin {"open", "write"}

C3_Witness ==
    /\ pc = "done"
    /\ ret = TRUE
    /\ suffix # lower(suffix)
    /\ ExtractionFailed

\* C4: if the input path does not exist, process_file returns false without
\* calling the image opener, the PDF rasterizer or the OCR engine, and
\* without running the cleaning and analysis pipeline.
C4_MissingInputCallsNothing ==
    ~input_exists =>
        /\ calls = <<>>
        /\ pc \in {"start", "done"}
        /\ pc = "done" => ret = FALSE
        /\ cleaned_text = <<>> /\ description = NoValue /\ out_file = Unwritten

C4_Witness ==
    /\ ~input_exists
    /\ pc = "done"
    /\ ret = FALSE
    /\ HasSupportedExtension

\* the recognition events so far, in the order they happened
IsOcrEvent(e) == e.op = "image_to_string"
OcrEvents == SelectSeq(calls, IsOcrEvent)

PdfRun == FileExtension(suffix) = PdfExtension /\ input_exists
PdfSucceeded == PdfRun /\ ~ExtractionFailed /\ pc \in {"pipeline", "write", "done"}

HeaderLine(k) == <<"-", "-", "-", " ", "P", "a", "g", "e", " ">> \o IntToStr[k] \o <<" ", "-", "-", "-">>

\* where the header of page k starts in the raw text
HeaderPos[k \in 1..(Len(page_texts) + 1)] ==
    IF k = 1 THEN 1
    ELSE HeaderPos[k - 1] + Len(HeaderLine(k - 1)) + 1 + Len(strip(page_texts[k - 1])) + 2

====
